---- MODULE Spec2Model ----
(***************************************************************************)
(* Model of pre_process.py: the KGML / GAF extract-and-load pipeline.      *)
(*                                                                         *)
(* Text values that the program takes apart (the name attribute of an      *)
(* entry, hence every gene_id) are sequences of one-character strings.     *)
(* Text values the program only copies (ids, types, disease labels, the    *)
(* fields of the annotation table) are strings.                            *)
(***************************************************************************)
EXTENDS Integers, Sequences, FiniteSets, TLC

VARIABLES
    pc,             \* position of the running call (main, or a single call)
    conn_open,      \* main: conn has been opened and not closed
    disk,           \* the persistent content of gene_pathway_db.sqlite
    db,             \* the content seen through the connection (disk + open transaction)
    disk0,          \* the persistent content when the run started
    i,              \* main: index of the next element of files_and_diseases
    unique_genes,   \* main: the accumulated set
    kgml_file,      \* the pathway document handed to the last parse_kgml call
    disease_arg,    \* the disease label handed to the last parse_kgml call
    pathways_data,  \* the value returned by the last parse_kgml call
    gaf_file,       \* the annotation table handed to parse_gaf
    gaf_data,       \* the value returned by parse_gaf
    trace,          \* main: the steps taken so far, in order
    last_call,      \* store calls: the name of the last call
    raised,         \* store calls: the last call raised
    ever_inserted   \* store calls: every identifier ever handed to insert_genes

vars == <<pc, conn_open, disk, db, disk0, i, unique_genes, kgml_file, disease_arg,
          pathways_data, gaf_file, gaf_data, trace, last_call, raised, ever_inserted>>

-----------------------------------------------------------------------------
(* Bounds of the model *)

MaxNameLen == 3
MaxEntries == 2
MaxGafLines == 2
MaxGeneArgs == 2
MaxStoreCalls == 4

-----------------------------------------------------------------------------
(* Generic helpers *)

Range(s) == {s[k] : k \in 1..Len(s)}

SeqsUpTo(S, n) == UNION {[1..k -> S] : k \in 0..n}

RECURSIVE SumSeq(_)
SumSeq(s) == IF s = <<>> THEN 0 ELSE Head(s) + SumSeq(Tail(s))

RECURSIVE Concat(_)
Concat(ss) == IF ss = <<>> THEN <<>> ELSE Head(ss) \o Concat(Tail(ss))

NoDuplicates(s) == \A a, b \in 1..Len(s) : s[a] = s[b] => a = b

Count(s, x) == Cardinality({k \in 1..Len(s) : s[k] = x})

Orderings(S) == {s \in [1..Cardinality(S) -> S] : Range(s) = S}

-----------------------------------------------------------------------------
(* Pathway extractor: parse_kgml *)

Space == " "

\* str.split(" "): cut at every single space; empty pieces are kept.
RECURSIVE SplitFrom(_, _, _)
SplitFrom(s, cur, acc) ==
    IF s = <<>> THEN Append(acc, cur)
    ELSE IF Head(s) = Space THEN SplitFrom(Tail(s), <<>>, Append(acc, cur))
    ELSE SplitFrom(Tail(s), Append(cur, Head(s)), acc)

split(entry_name) == SplitFrom(entry_name, <<>>, <<>>)

\* entry.get("name") is None when the attribute is absent; None.split raises.
NameMissing(entry) == "name" \notin DOMAIN entry

\* The records appended for one entry element.
EntryRecords(entry, disease) ==
    LET gene_names == split(entry.name)
    IN  [k \in 1..Len(gene_names) |->
            [entry_id |-> entry.id, gene_id |-> gene_names[k],
             entry_type |-> entry.type, disease |-> disease]]

\* The mutant of parse_kgml: the parse error is not caught.
parse_kgml_uncaught(file, disease) ==
    IF ~file.ok THEN [raised |-> TRUE, value |-> <<>>]
    ELSE IF \E k \in 1..Len(file.entries) : NameMissing(file.entries[k])
         THEN [raised |-> TRUE, value |-> <<>>]
         ELSE [raised |-> FALSE,
               value |-> Concat([k \in 1..Len(file.entries) |->
                                    EntryRecords(file.entries[k], disease)])]

\* parse_kgml: [] for a document ET.parse rejects; an exception for an entry
\* without a name attribute; else the records of the entries, in order.
parse_kgml(file, disease) ==
    IF ~file.ok THEN [raised |-> FALSE, value |-> <<>>]
    ELSE IF \E k \in 1..Len(file.entries) : NameMissing(file.entries[k])
         THEN [raised |-> TRUE, value |-> <<>>]
         ELSE [raised |-> FALSE,
               value |-> Concat([k \in 1..Len(file.entries) |->
                                    EntryRecords(file.entries[k], disease)])]

\* The number of whitespace-separated tokens of a name: the maximal runs of
\* characters other than whitespace.
TokenCount(name) ==
    Cardinality({k \in 1..Len(name) :
                    name[k] # Space /\ (k = 1 \/ name[k - 1] = Space)})

(* Inputs of parse_kgml *)

Chars == {"A", Space}
Names == SeqsUpTo(Chars, MaxNameLen)
EntryIds == {"10"}
EntryTypes == {"gene"}
Entries ==
    [id : EntryIds, name : Names, type : EntryTypes] \cup [id : EntryIds, type : EntryTypes]
UnreadableDoc == [ok |-> FALSE, entries |-> <<>>]
Doc(entries) == [ok |-> TRUE, entries |-> entries]
KgmlDocs == {UnreadableDoc} \cup {Doc(es) : es \in SeqsUpTo(Entries, MaxEntries)}

ValidDoc(file) ==
    file.ok /\ \A k \in 1..Len(file.entries) : ~NameMissing(file.entries[k])

-----------------------------------------------------------------------------
(* Relational store.  A store is its set of tables and the rows of each, in *)
(* insertion order.  disk is what a later connection would read; db is what *)
(* this connection reads, and in_txn says a transaction is open on it.      *)

TableNames == {"genes", "pathways", "gene_go_associations"}

EmptyStore == [tables |-> {}, genes |-> <<>>, pathways |-> <<>>, go |-> <<>>]

Rows(store) == [genes |-> store.genes, pathways |-> store.pathways, go |-> store.go]

\* sqlite3.connect: the connection reads what is on disk, no transaction open.
Connection(store) ==
    [tables |-> store.tables, genes |-> store.genes, pathways |-> store.pathways,
     go |-> store.go, in_txn |-> FALSE]

\* The mutant of create_tables: CREATE TABLE without IF NOT EXISTS.
create_tables_strict(d) ==
    IF d.tables \cap TableNames # {}
    THEN [raised |-> TRUE, db |-> d]
    ELSE [raised |-> FALSE, db |-> [d EXCEPT !.tables = @ \cup TableNames]]

\* create_tables: three CREATE TABLE IF NOT EXISTS statements.
create_tables(d) ==
    [raised |-> FALSE, db |-> [d EXCEPT !.tables = @ \cup TableNames]]

\* The mutant of InsertOrIgnore: a plain INSERT that adds the row regardless.
InsertAlways(genes, gene_id) == Append(genes, gene_id)

\* INSERT OR IGNORE INTO genes: gene_id is the primary key.
InsertOrIgnore(genes, gene_id) ==
    IF gene_id \in Range(genes) THEN genes ELSE Append(genes, gene_id)

RECURSIVE InsertEach(_, _)
InsertEach(genes, data) ==
    IF data = <<>> THEN genes
    ELSE InsertEach(InsertOrIgnore(genes, Head(data)), Tail(data))

\* insert_genes: one INSERT OR IGNORE per element of data.
insert_genes(data, d) ==
    IF data # <<>> /\ "genes" \notin d.tables
    THEN [raised |-> TRUE, db |-> d]
    ELSE [raised |-> FALSE,
          db |-> [d EXCEPT !.genes = InsertEach(@, data),
                           !.in_txn = @ \/ data # <<>>]]

\* insert_pathways: one INSERT per row; the foreign key is not enforced.
insert_pathways(data, d) ==
    IF data # <<>> /\ "pathways" \notin d.tables
    THEN [raised |-> TRUE, db |-> d]
    ELSE [raised |-> FALSE,
          db |-> [d EXCEPT !.pathways = @ \o data, !.in_txn = @ \/ data # <<>>]]

\* insert_gene_go_associations: one INSERT per row of the frame.
insert_gene_go_associations(data, d) ==
    IF data # <<>> /\ "gene_go_associations" \notin d.tables
    THEN [raised |-> TRUE, db |-> d]
    ELSE [raised |-> FALSE,
          db |-> [d EXCEPT
                    !.go = @ \o [k \in 1..Len(data) |->
                                    [gene_id |-> data[k].DB_Object_Symbol,
                                     go_id |-> data[k].GO_ID]],
                    !.in_txn = @ \/ data # <<>>]]

\* The mutant of DiskAfterWrite: autocommit, every statement is persistent at once.
DiskAfterWrite_autocommit(dsk, d) ==
    [tables |-> d.tables, genes |-> d.genes, pathways |-> d.pathways, go |-> d.go]

\* What is on disk after a statement ran on the connection: a CREATE TABLE
\* outside a transaction is persistent at once, everything else waits for
\* commit (the connection is opened with the default isolation level).
DiskAfterWrite(dsk, d) ==
    IF d.in_txn THEN dsk ELSE [dsk EXCEPT !.tables = d.tables]

\* conn.commit()
DiskAfterCommit(dsk, d) ==
    [tables |-> d.tables, genes |-> d.genes, pathways |-> d.pathways, go |-> d.go]

-----------------------------------------------------------------------------
(* Annotation extractor: parse_gaf.  An annotation table is a sequence of   *)
(* lines, a line is the sequence of its tab-separated fields.               *)

NumCols == 17
SymbolCol == 3
GoCol == 5

\* The missing value of a frame (inserted into the store as NULL).
NaN == "<NaN>"

\* Some of the strings read_csv reads as missing by default, dtype=str or not.
NaValues == {"", "NA", "NaN", "null"}

\* The fields of the inputs that begin with the comment character "!".
MarkerFields == {"!gaf-version: 2.2", "!note"}

BeginsWithMarker(field) == field \in MarkerFields

\* comment="!": the rest of a line from the first "!" on is not parsed; a line
\* that begins with "!" is ignored altogether (it becomes the empty line).
StripComment(line) ==
    LET marks == {k \in 1..Len(line) : BeginsWithMarker(line[k])}
    IN  IF marks = {} THEN line
        ELSE LET m == CHOOSE k \in marks : \A j \in marks : k <= j
             IN  IF m = 1 THEN <<>> ELSE SubSeq(line, 1, m - 1) \o <<"">>

\* One parsed row of ncols cells: short lines are padded with the missing
\* value, fields in NaValues are read as the missing value.
Cells(line, ncols) ==
    [k \in 1..ncols |->
        IF k > Len(line) THEN NaN
        ELSE IF line[k] \in NaValues THEN NaN
        ELSE line[k]]

\* pd.read_csv(file_path, sep="\t", comment="!", header=None, dtype=dtype):
\* raises on a missing file, on a file without data lines, and on a line with
\* more fields than the first data line.
read_csv(file) ==
    IF ~file.ok THEN [raised |-> TRUE, ncols |-> 0, rows |-> <<>>]
    ELSE LET stripped == [k \in 1..Len(file.lines) |-> StripComment(file.lines[k])]
             data == SelectSeq(stripped, LAMBDA l : l # <<>>)
         IN  IF data = <<>> THEN [raised |-> TRUE, ncols |-> 0, rows |-> <<>>]
             ELSE LET ncols == Len(data[1])
                  IN  IF \E k \in 1..Len(data) : Len(data[k]) > ncols
                      THEN [raised |-> TRUE, ncols |-> ncols, rows |-> <<>>]
                      ELSE [raised |-> FALSE, ncols |-> ncols,
                            rows |-> [k \in 1..Len(data) |-> Cells(data[k], ncols)]]

\* DataFrame.drop_duplicates(): the first occurrence of every row is kept.
RECURSIVE drop_duplicates(_)
drop_duplicates(rows) ==
    IF rows = <<>> THEN <<>>
    ELSE LET n == Len(rows)
             front == SubSeq(rows, 1, n - 1)
         IN  IF rows[n] \in Range(front) THEN drop_duplicates(front)
             ELSE Append(drop_duplicates(front), rows[n])

\* parse_gaf: read the table, name its 17 columns (an exception when the
\* frame has another number of columns), keep two of them, drop duplicates.
parse_gaf(file) ==
    LET gaf_df == read_csv(file)
    IN  IF gaf_df.raised \/ gaf_df.ncols # NumCols
        THEN [raised |-> TRUE, value |-> <<>>]
        ELSE [raised |-> FALSE,
              value |-> drop_duplicates(
                  [k \in 1..Len(gaf_df.rows) |->
                      [DB_Object_Symbol |-> gaf_df.rows[k][SymbolCol],
                       GO_ID |-> gaf_df.rows[k][GoCol]]])]

(* Inputs of parse_gaf *)

EvidenceCol == 7
NameCol == 10

GafRow(symbol, go_id, evidence) ==
    [k \in 1..NumCols |->
        IF k = SymbolCol THEN symbol
        ELSE IF k = GoCol THEN go_id
        ELSE IF k = EvidenceCol THEN evidence
        ELSE "x"]

CommentLine == <<"!gaf-version: 2.2">>
ShortLine == SubSeq(GafRow("TP53", "GO:1", "IEA"), 1, NumCols - 1)
LongLine == Append(GafRow("TP53", "GO:1", "IEA"), "x")
NotedLine == [GafRow("BRCA1", "GO:2", "IEA") EXCEPT ![NameCol] = "!note"]

GafLines ==
    {GafRow(s, g, e) : s \in {"TP53", "NA"}, g \in {"GO:1"}, e \in {"IEA", "IDA"}}
        \cup {GafRow("BRCA1", "GO:2", "IEA"), CommentLine, ShortLine, LongLine, NotedLine}

MissingTable == [ok |-> FALSE, lines |-> <<>>]
Table(lines) == [ok |-> TRUE, lines |-> lines]
GafTables == {MissingTable} \cup {Table(ls) : ls \in SeqsUpTo(GafLines, MaxGafLines)}

\* The lines of a table that do not begin with the comment character.
SourceRows(file) == SelectSeq(file.lines, LAMBDA l : l # <<>> /\ ~BeginsWithMarker(l[1]))

-----------------------------------------------------------------------------
(* main *)

\* The disease labels of files_and_diseases, in list order; what each path
\* holds is chosen when the document is read.
files_and_diseases ==
    <<"Alzheimer's disease", "Parkinson's disease",
      "Type II diabetes mellitus", "Colorectal cancer">>

Entry(name) == [id |-> "10", name |-> name, type |-> "gene"]

\* The documents a path of files_and_diseases may hold.
MainDocs ==
    { UnreadableDoc,
      Doc(<<>>),
      Doc(<<Entry(<<"A">>)>>),
      Doc(<<Entry(<<"A", " ", "B">>)>>),
      Doc(<<Entry(<<"B", " ", " ", "A">>)>>),
      Doc(<<Entry(<<"A">>), Entry(<<"C">>)>>),
      Doc(<<[id |-> "10", type |-> "gene"]>>) }

\* The tables goa_human.gaf may hold.
MainGafTables ==
    { MissingTable,
      Table(<<CommentLine>>),
      Table(<<CommentLine, GafRow("TP53", "GO:1", "IEA"), GafRow("TP53", "GO:1", "IDA")>>),
      Table(<<GafRow("TP53", "GO:1", "IEA"), GafRow("BRCA1", "GO:2", "IEA")>>),
      Table(<<GafRow("TP53", "GO:1", "IEA"), LongLine>>) }

\* The stores a run may find: no file, the empty schema, a loaded store.
StoreInits ==
    { EmptyStore,
      [EmptyStore EXCEPT !.tables = TableNames],
      [tables |-> TableNames,
       genes |-> << <<"A">> >>,
       pathways |-> <<[entry_id |-> "7", gene_id |-> <<"A">>, entry_type |-> "gene",
                       disease |-> "Colorectal cancer"]>>,
       go |-> <<[gene_id |-> "TP53", go_id |-> "GO:1"]>>] }

\* The mutant of GeneIds: only the last record of a document is added.
GeneIds_last(data) == IF data = <<>> THEN {} ELSE {data[Len(data)].gene_id}

\* for pathway in pathways_data: unique_genes.add(pathway["gene_id"])
GeneIds(data) == {data[k].gene_id : k \in 1..Len(data)}

InitCommon ==
    /\ db = Connection(disk)
    /\ disk0 = disk
    /\ unique_genes = {}
    /\ pathways_data = <<>>
    /\ gaf_data = <<>>
    /\ trace = <<>>
    /\ last_call = "none"
    /\ raised = FALSE
    /\ ever_inserted = {}

Init ==
    /\ pc = "start"
    /\ disk \in StoreInits
    /\ conn_open = FALSE
    /\ i = 1
    /\ kgml_file = Doc(<<>>)
    /\ disease_arg = files_and_diseases[1]
    /\ gaf_file = MissingTable
    /\ InitCommon

Abort(step) ==
    /\ pc' = "failed"
    /\ raised' = TRUE
    /\ last_call' = step
    /\ UNCHANGED trace

\* conn = sqlite3.connect(...); c = conn.cursor()
Connect ==
    /\ pc = "start"
    /\ conn_open' = TRUE
    /\ db' = Connection(disk)
    /\ pc' = "create_tables"
    /\ UNCHANGED <<disk, disk0, i, unique_genes, kgml_file, disease_arg, pathways_data,
                   gaf_file, gaf_data, trace, last_call, raised, ever_inserted>>

\* create_tables(c)
CreateTablesStep ==
    /\ pc = "create_tables"
    /\ LET r == create_tables(db)
       IN  /\ db' = r.db
           /\ disk' = DiskAfterWrite(disk, r.db)
           /\ IF r.raised THEN Abort("create_tables")
              ELSE /\ pc' = "loop"
                   /\ trace' = Append(trace, "create_tables")
                   /\ UNCHANGED <<raised, last_call>>
    /\ UNCHANGED <<conn_open, disk0, i, unique_genes, kgml_file, disease_arg,
                   pathways_data, gaf_file, gaf_data, ever_inserted>>

\* A schema statement fails.
CreateTablesFails ==
    /\ pc = "create_tables"
    /\ Abort("create_tables")
    /\ UNCHANGED <<conn_open, disk, db, disk0, i, unique_genes, kgml_file, disease_arg,
                   pathways_data, gaf_file, gaf_data, ever_inserted>>

\* One iteration of the loop over files_and_diseases.
ProcessDocument ==
    /\ pc = "loop"
    /\ \E file \in MainDocs :
        LET r == parse_kgml(file, files_and_diseases[i])
            w == insert_pathways(r.value, db)
        IN  /\ kgml_file' = file
            /\ disease_arg' = files_and_diseases[i]
            /\ IF r.raised
               THEN /\ Abort("parse_kgml")
                    /\ UNCHANGED <<db, disk, pathways_data, unique_genes, i>>
               ELSE /\ pathways_data' = r.value
                    /\ db' = w.db
                    /\ disk' = DiskAfterWrite(disk, w.db)
                    /\ IF w.raised
                       THEN /\ Abort("insert_pathways")
                            /\ UNCHANGED <<unique_genes, i>>
                       ELSE /\ unique_genes' = unique_genes \cup GeneIds(r.value)
                            /\ i' = i + 1
                            /\ pc' = IF i = Len(files_and_diseases)
                                     THEN "insert_genes" ELSE "loop"
                            /\ trace' = trace \o <<"parse_kgml", "insert_pathways">>
                            /\ UNCHANGED <<raised, last_call>>
    /\ UNCHANGED <<conn_open, disk0, gaf_file, gaf_data, ever_inserted>>

\* An INSERT of insert_pathways fails after k rows of the document went in.
InsertPathwaysFails ==
    /\ pc = "loop"
    /\ \E file \in MainDocs :
        LET r == parse_kgml(file, files_and_diseases[i])
        IN  /\ ~r.raised
            /\ \E k \in 0..(Len(r.value) - 1) :
                LET w == insert_pathways(SubSeq(r.value, 1, k), db)
                IN  /\ db' = w.db
                    /\ disk' = DiskAfterWrite(disk, w.db)
            /\ kgml_file' = file
            /\ disease_arg' = files_and_diseases[i]
            /\ pathways_data' = r.value
    /\ Abort("insert_pathways")
    /\ UNCHANGED <<conn_open, disk0, i, unique_genes, gaf_file, gaf_data,
                   ever_inserted>>

\* insert_genes(list(unique_genes), c): the order of the list is arbitrary.
InsertGenesStep ==
    /\ pc = "insert_genes"
    /\ \E data \in Orderings(unique_genes) :
        LET w == insert_genes(data, db)
        IN  /\ db' = w.db
            /\ disk' = DiskAfterWrite(disk, w.db)
            /\ IF w.raised THEN Abort("insert_genes")
               ELSE /\ pc' = "parse_gaf"
                    /\ trace' = Append(trace, "insert_genes")
                    /\ UNCHANGED <<raised, last_call>>
    /\ UNCHANGED <<conn_open, disk0, i, unique_genes, kgml_file, disease_arg,
                   pathways_data, gaf_file, gaf_data, ever_inserted>>

\* An INSERT of insert_genes fails after k identifiers went in.
InsertGenesFails ==
    /\ pc = "insert_genes"
    /\ \E data \in Orderings(unique_genes) :
        \E k \in 0..(Len(data) - 1) :
            LET w == insert_genes(SubSeq(data, 1, k), db)
            IN  /\ db' = w.db
                /\ disk' = DiskAfterWrite(disk, w.db)
    /\ Abort("insert_genes")
    /\ UNCHANGED <<conn_open, disk0, i, unique_genes, kgml_file, disease_arg,
                   pathways_data, gaf_file, gaf_data, ever_inserted>>

\* gaf_data = parse_gaf("goa_human.gaf")
ParseGafStep ==
    /\ pc = "parse_gaf"
    /\ \E file \in MainGafTables :
        LET r == parse_gaf(file)
        IN  /\ gaf_file' = file
            /\ IF r.raised
               THEN /\ Abort("parse_gaf")
                    /\ UNCHANGED gaf_data
               ELSE /\ gaf_data' = r.value
                    /\ pc' = "insert_go"
                    /\ trace' = Append(trace, "parse_gaf")
                    /\ UNCHANGED <<raised, last_call>>
    /\ UNCHANGED <<conn_open, disk, db, disk0, i, unique_genes, kgml_file, disease_arg,
                   pathways_data, ever_inserted>>

\* insert_gene_go_associations(gaf_data, c)
InsertGoStep ==
    /\ pc = "insert_go"
    /\ LET w == insert_gene_go_associations(gaf_data, db)
       IN  /\ db' = w.db
           /\ disk' = DiskAfterWrite(disk, w.db)
           /\ IF w.raised THEN Abort("insert_gene_go_associations")
              ELSE /\ pc' = "commit"
                   /\ trace' = Append(trace, "insert_gene_go_associations")
                   /\ UNCHANGED <<raised, last_call>>
    /\ UNCHANGED <<conn_open, disk0, i, unique_genes, kgml_file, disease_arg,
                   pathways_data, gaf_file, gaf_data, ever_inserted>>

\* An INSERT of insert_gene_go_associations fails after k rows went in.
InsertGoFails ==
    /\ pc = "insert_go"
    /\ \E k \in 0..(Len(gaf_data) - 1) :
        LET w == insert_gene_go_associations(SubSeq(gaf_data, 1, k), db)
        IN  /\ db' = w.db
            /\ disk' = DiskAfterWrite(disk, w.db)
    /\ Abort("insert_gene_go_associations")
    /\ UNCHANGED <<conn_open, disk0, i, unique_genes, kgml_file, disease_arg,
                   pathways_data, gaf_file, gaf_data, ever_inserted>>

\* conn.commit()
CommitStep ==
    /\ pc = "commit"
    /\ disk' = DiskAfterCommit(disk, db)
    /\ db' = [db EXCEPT !.in_txn = FALSE]
    /\ pc' = "close"
    /\ trace' = Append(trace, "commit")
    /\ UNCHANGED <<conn_open, disk0, i, unique_genes, kgml_file, disease_arg,
                   pathways_data, gaf_file, gaf_data, last_call, raised, ever_inserted>>

\* conn.commit() fails: nothing of the transaction is written.
CommitFails ==
    /\ pc = "commit"
    /\ Abort("commit")
    /\ UNCHANGED <<conn_open, disk, db, disk0, i, unique_genes, kgml_file, disease_arg,
                   pathways_data, gaf_file, gaf_data, ever_inserted>>

\* conn.close()
CloseStep ==
    /\ pc = "close"
    /\ conn_open' = FALSE
    /\ pc' = "done"
    /\ trace' = Append(trace, "close")
    /\ UNCHANGED <<disk, db, disk0, i, unique_genes, kgml_file, disease_arg,
                   pathways_data, gaf_file, gaf_data, last_call, raised, ever_inserted>>

Next ==
    \/ Connect
    \/ CreateTablesStep
    \/ CreateTablesFails
    \/ ProcessDocument
    \/ InsertPathwaysFails
    \/ InsertGenesStep
    \/ InsertGenesFails
    \/ ParseGafStep
    \/ InsertGoStep
    \/ InsertGoFails
    \/ CommitStep
    \/ CommitFails
    \/ CloseStep

Spec == Init /\ [][Next]_vars

-----------------------------------------------------------------------------
(* A single call of parse_kgml on any document of the bounded set *)

InitKgml ==
    /\ pc = "call"
    /\ disk = EmptyStore
    /\ conn_open = FALSE
    /\ i = 1
    /\ kgml_file \in KgmlDocs
    /\ disease_arg \in {files_and_diseases[1], files_and_diseases[4]}
    /\ gaf_file = MissingTable
    /\ InitCommon

CallParseKgml ==
    /\ pc = "call"
    /\ LET r == parse_kgml(kgml_file, disease_arg)
       IN  /\ pathways_data' = r.value
           /\ raised' = r.raised
    /\ pc' = "returned"
    /\ last_call' = "parse_kgml"
    /\ UNCHANGED <<conn_open, disk, db, disk0, i, unique_genes, kgml_file, disease_arg,
                   gaf_file, gaf_data, trace, ever_inserted>>

NextKgml == CallParseKgml

SpecKgml == InitKgml /\ [][NextKgml]_vars

-----------------------------------------------------------------------------
(* A single call of parse_gaf on any table of the bounded set *)

InitGaf ==
    /\ pc = "call"
    /\ disk = EmptyStore
    /\ conn_open = FALSE
    /\ i = 1
    /\ kgml_file = Doc(<<>>)
    /\ disease_arg = files_and_diseases[1]
    /\ gaf_file \in GafTables
    /\ InitCommon

CallParseGaf ==
    /\ pc = "call"
    /\ LET r == parse_gaf(gaf_file)
       IN  /\ gaf_data' = r.value
           /\ raised' = r.raised
    /\ pc' = "returned"
    /\ last_call' = "parse_gaf"
    /\ UNCHANGED <<conn_open, disk, db, disk0, i, unique_genes, kgml_file, disease_arg,
                   pathways_data, gaf_file, trace, ever_inserted>>

NextGaf == CallParseGaf

SpecGaf == InitGaf /\ [][NextGaf]_vars

-----------------------------------------------------------------------------
(* Any sequence of calls of the loader's functions on one connection *)

GeneArgs == SeqsUpTo({<<"A">>, <<"B">>}, MaxGeneArgs)

PathwayArgs ==
    {<<>>, <<[entry_id |-> "10", gene_id |-> <<"B">>, entry_type |-> "gene",
              disease |-> "Colorectal cancer"]>>}

GoArgs == {<<>>, <<[DB_Object_Symbol |-> "TP53", GO_ID |-> "GO:1"]>>}

InitStore ==
    /\ pc = "calls"
    /\ disk \in StoreInits
    /\ conn_open = TRUE
    /\ i = 0
    /\ kgml_file = Doc(<<>>)
    /\ disease_arg = files_and_diseases[1]
    /\ gaf_file = MissingTable
    /\ InitCommon

CallCreateTables ==
    /\ pc = "calls" /\ i < MaxStoreCalls
    /\ LET r == create_tables(db)
       IN  /\ db' = r.db
           /\ disk' = DiskAfterWrite(disk, r.db)
           /\ raised' = r.raised
    /\ last_call' = "create_tables"
    /\ i' = i + 1
    /\ UNCHANGED <<pc, conn_open, disk0, unique_genes, kgml_file, disease_arg,
                   pathways_data, gaf_file, gaf_data, trace, ever_inserted>>

CallInsertGenes ==
    /\ pc = "calls" /\ i < MaxStoreCalls
    /\ \E data \in GeneArgs :
        LET r == insert_genes(data, db)
        IN  /\ db' = r.db
            /\ disk' = DiskAfterWrite(disk, r.db)
            /\ raised' = r.raised
            /\ ever_inserted' = IF r.raised THEN ever_inserted
                                ELSE ever_inserted \cup Range(data)
    /\ last_call' = "insert_genes"
    /\ i' = i + 1
    /\ UNCHANGED <<pc, conn_open, disk0, unique_genes, kgml_file, disease_arg,
                   pathways_data, gaf_file, gaf_data, trace>>

CallInsertPathways ==
    /\ pc = "calls" /\ i < MaxStoreCalls
    /\ \E data \in PathwayArgs :
        LET r == insert_pathways(data, db)
        IN  /\ db' = r.db
            /\ disk' = DiskAfterWrite(disk, r.db)
            /\ raised' = r.raised
    /\ last_call' = "insert_pathways"
    /\ i' = i + 1
    /\ UNCHANGED <<pc, conn_open, disk0, unique_genes, kgml_file, disease_arg,
                   pathways_data, gaf_file, gaf_data, trace, ever_inserted>>

CallInsertGo ==
    /\ pc = "calls" /\ i < MaxStoreCalls
    /\ \E data \in GoArgs :
        LET r == insert_gene_go_associations(data, db)
        IN  /\ db' = r.db
            /\ disk' = DiskAfterWrite(disk, r.db)
            /\ raised' = r.raised
    /\ last_call' = "insert_gene_go_associations"
    /\ i' = i + 1
    /\ UNCHANGED <<pc, conn_open, disk0, unique_genes, kgml_file, disease_arg,
                   pathways_data, gaf_file, gaf_data, trace, ever_inserted>>

CallCommit ==
    /\ pc = "calls" /\ i < MaxStoreCalls
    /\ disk' = DiskAfterCommit(disk, db)
    /\ db' = [db EXCEPT !.in_txn = FALSE]
    /\ raised' = FALSE
    /\ last_call' = "commit"
    /\ i' = i + 1
    /\ UNCHANGED <<pc, conn_open, disk0, unique_genes, kgml_file, disease_arg,
                   pathways_data, gaf_file, gaf_data, trace, ever_inserted>>

NextStore ==
    \/ CallCreateTables
    \/ CallInsertGenes
    \/ CallInsertPathways
    \/ CallInsertGo
    \/ CallCommit

SpecStore == InitStore /\ [][NextStore]_vars

-----------------------------------------------------------------------------
(* Properties *)

\* The pathway rows this run has inserted so far.
NewPathwayRows == SubSeq(db.pathways, Len(disk0.pathways) + 1, Len(db.pathways))

AfterLoop == pc \in {"insert_genes", "parse_gaf", "insert_go", "commit", "close", "done"}

\* The place of each step in the order the orchestration sequence states.
Rank(step) ==
    CASE step = "create_tables" -> 1
      [] step = "parse_kgml" -> 2
      [] step = "insert_genes" -> 3
      [] step = "insert_pathways" -> 4
      [] step = "parse_gaf" -> 5
      [] step = "insert_gene_go_associations" -> 6
      [] step = "commit" -> 7
      [] step = "close" -> 8

\* C1: the steps of main happen in the order schema create, pathway
\* extraction of every document, gene insert, pathway insert, annotation
\* extraction, annotation insert, commit, close; no pathway row is inserted
\* before the gene rows have been inserted.
C1_FixedOrder ==
    /\ \A a, b \in 1..Len(trace) : a < b => Rank(trace[a]) <= Rank(trace[b])
    /\ NewPathwayRows # <<>> => "insert_genes" \in Range(trace)

\* C2: when a step of main fails before the commit, the error ends the run
\* (no step follows it), commit is not reached, and the rows of the store
\* are those it held when the run started.
C2_NoPartialCommit ==
    /\ [](pc = "failed" =>
            /\ raised
            /\ "commit" \notin Range(trace)
            /\ Rows(disk) = Rows(disk0))
    /\ [][pc # "failed"]_vars

C2_Witness ==
    /\ pc = "failed"
    /\ last_call = "parse_gaf"
    /\ NewPathwayRows # <<>>
    /\ Len(db.genes) > Len(disk0.genes)

\* C3: a document that cannot be parsed makes parse_kgml return the empty
\* sequence without raising; the loop goes on to the next document, the
\* failed one adds no pathway row and no gene, and a run is never ended by
\* an unreadable document.
C3_UnreadableDocumentSkipped ==
    /\ [][(pc = "loop" /\ ~kgml_file'.ok) =>
            /\ pathways_data' = <<>>
            /\ ~raised'
            /\ i' = i + 1
            /\ pc' = (IF i = Len(files_and_diseases) THEN "insert_genes" ELSE "loop")
            /\ Rows(db') = Rows(db)
            /\ unique_genes' = unique_genes]_vars
    /\ []((pc = "failed" /\ last_call = "parse_kgml") => kgml_file.ok)

C3_Witness ==
    /\ ~kgml_file.ok
    /\ "commit" \in Range(trace)
    /\ NewPathwayRows # <<>>

\* C4: for a valid document the number of records parse_kgml returns is the
\* sum over the entries of the number of whitespace-separated tokens of the
\* name attribute.
C4_RecordCount ==
    (pc = "returned" /\ ValidDoc(kgml_file)) =>
        Len(pathways_data) =
            SumSeq([k \in 1..Len(kgml_file.entries) |->
                        TokenCount(kgml_file.entries[k].name)])

\* C5: once every document is processed the accumulated gene set is exactly
\* the set of the gene_id values of the records emitted in this run, and the
\* gene table then gains exactly these identifiers, each once.
C5_GeneSet ==
    /\ AfterLoop => unique_genes = {NewPathwayRows[k].gene_id : k \in 1..Len(NewPathwayRows)}
    /\ "insert_genes" \in Range(trace) =>
            /\ Range(db.genes) = Range(disk0.genes) \cup unique_genes
            /\ NoDuplicates(db.genes)

C5_Witness ==
    /\ pc = "parse_gaf"
    /\ Cardinality(unique_genes) >= 2
    /\ Len(NewPathwayRows) > Cardinality(unique_genes)

\* C6: the result of parse_gaf holds no pair (gene symbol, term id) twice, and
\* every pair of a source row that is not a comment is in it exactly once.
C6_UniquePairs ==
    (pc = "returned" /\ ~raised) =>
        /\ NoDuplicates(gaf_data)
        /\ \A k \in 1..Len(SourceRows(gaf_file)) :
              LET line == SourceRows(gaf_file)[k]
              IN  Len(line) >= GoCol =>
                    Count(gaf_data, [DB_Object_Symbol |-> line[SymbolCol],
                                     GO_ID |-> line[GoCol]]) = 1

\* C7: after any sequence of insert_genes calls the gene table holds one row
\* for every identifier it held at the start or was ever handed, none twice,
\* and no call on an existing gene table raises.
C7_GeneInsertIdempotent ==
    /\ NoDuplicates(db.genes)
    /\ Range(db.genes) = Range(disk0.genes) \cup ever_inserted
    /\ (last_call = "insert_genes" /\ "genes" \in db.tables) => ~raised

C7_Witness ==
    /\ last_call = "insert_genes"
    /\ ~raised
    /\ ever_inserted \cap Range(disk0.genes) # {}
    /\ Cardinality(ever_inserted) = 2

\* C8: create_tables on a store that has the three tables raises nothing and
\* changes neither the tables nor any row, on the connection or on disk.
C8_CreateTablesNoOp ==
    [][(last_call' = "create_tables" /\ i' = i + 1 /\ TableNames \subseteq db.tables) =>
            /\ ~raised'
            /\ db' = db
            /\ disk' = disk]_vars

C8_Witness ==
    /\ last_call = "create_tables"
    /\ ~raised
    /\ TableNames \subseteq disk0.tables
    /\ Len(db.genes) > Len(disk0.genes)

\* C9: no record parse_kgml emits has an empty gene_id, so no empty
\* identifier is in the accumulated gene set, the gene table or the pathway
\* table.
C9_NoEmptyGene ==
    /\ \A k \in 1..Len(pathways_data) : pathways_data[k].gene_id # <<>>
    /\ <<>> \notin unique_genes
    /\ <<>> \notin Range(db.genes)
    /\ \A k \in 1..Len(db.pathways) : db.pathways[k].gene_id # <<>>

\* C10: on every exit of main, the failed ones included, the connection
\* opened at the start has been closed.
C10_ConnectionClosed == pc \in {"done", "failed"} => ~conn_open

====
